---- MODULE Spec2Model ----
(***************************************************************************)
(* Mobile Repair Assistant API (src/main.py, src/schemas.py).              *)
(*                                                                         *)
(* Three specifications over one set of variables:                         *)
(*   Spec       - POST /api/seed handled by concurrent request workers,    *)
(*                one store call (count_documents / insert) per step.      *)
(*   SpecGuides - GET /api/guides over a stored solutionguide collection.  *)
(*   SpecSer    - the pure function _serialize applied to raw records.     *)
(***************************************************************************)
EXTENDS Integers, Sequences, FiniteSets, TLC

VARIABLES
    db,             \* the global store handle: "none" (db is None) or "ready"
    issuecategory,  \* collection "issuecategory": the set of stored documents
    solutionguide,  \* collection "solutionguide": the set of stored documents
    pc,             \* pc[w]: position of worker w inside seed_sample_data
    idx,            \* idx[w]: index of the next seed record of the running for-loop
    calls,          \* number of seed calls begun so far
    call,           \* call[w]: the number of the seed call w is handling
    sawCats,        \* history: what w's count of issuecategory observed in this call
    sawGuides,      \* history: what w's count of solutionguide observed in this call
    catsIns,        \* history: keys of the categories w inserted in this call
    guidesIns,      \* history: category_keys of the guides w inserted in this call
    ops,            \* history: store calls (count or insert) w issued in this call
    seeded,         \* history: some seed call has returned "Seed complete"
    afterSeed,      \* history: w's call began when seeded was already TRUE
    partial,        \* history: per collection, a failed call left 0 < k < N seed records
    afterPartial,   \* history: the value of partial when w's call began
    query,          \* the category_key parameter of the last GET /api/guides
    resp,           \* the body of the last GET /api/guides response
    doc,            \* SpecSer: the raw record under test
    once,           \* SpecSer: _serialize(doc)
    twice,          \* SpecSer: _serialize(_serialize(doc))
    serPc           \* SpecSer: "raw", "once" or "twice": how far the test has run

vars == <<db, issuecategory, solutionguide, pc, idx, calls, call, sawCats, sawGuides,
          catsIns, guidesIns, ops, seeded, afterSeed, partial, afterPartial,
          query, resp, doc, once, twice, serPc>>

seedVars == <<db, issuecategory, solutionguide, pc, idx, calls, call, sawCats, sawGuides,
              catsIns, guidesIns, ops, seeded, afterSeed, partial, afterPartial>>
guideVars == <<query, resp>>
serVars == <<doc, once, twice, serPc>>

(***************************************************************************)
(* Bounds of the model.                                                    *)
(***************************************************************************)
NumWorkers == 2   \* concurrent request workers
MaxCalls == 2     \* seed calls begun in one behaviour
MaxStored == 2    \* SpecGuides: stored guides in the initial collection
MaxFields == 2    \* SpecSer: fields of a raw record

Workers == 1..NumWorkers

(***************************************************************************)
(* Python values. Every value is a record [t, v]; the payload type is      *)
(* fixed per tag. A str payload is [s, n]: the literal text s (n = 0), or  *)
(* a rendering of the n-th identifier / timestamp / integer.               *)
(***************************************************************************)
Text(s) == [t |-> "str", v |-> [s |-> s, n |-> 0]]
Rendered(kind, n) == [t |-> "str", v |-> [s |-> kind, n |-> n]]
ObjectId(n) == [t |-> "ObjectId", v |-> n]
Datetime(n) == [t |-> "datetime", v |-> n]
PyInt(n) == [t |-> "int", v |-> n]
List(s) == [t |-> "list", v |-> s]
Dict(s) == [t |-> "dict", v |-> s]
None == [t |-> "NoneType", v |-> 0]
\* No GET /api/guides request has been answered yet.
NoRequest == [t |-> "no-request", v |-> 0]

\* A dict is a sequence of <<key, value>> pairs in insertion order, keys distinct.
Keys(d) == {d[i][1] : i \in 1..Len(d)}
HasKey(d, k) == k \in Keys(d)
Get(d, k) == d[CHOOSE i \in 1..Len(d) : d[i][1] = k][2]
\* d[k] = v for a dict: overwrite in place when k is present, append otherwise.
SetItem(d, k, v) ==
    IF HasKey(d, k)
    THEN [i \in 1..Len(d) |-> IF d[i][1] = k THEN <<k, v>> ELSE d[i]]
    ELSE Append(d, <<k, v>>)
\* Python dict equality: same keys, same values, order ignored.
DictEq(a, b) == Keys(a) = Keys(b) /\ \A k \in Keys(a) : Get(a, k) = Get(b, k)

(***************************************************************************)
(* Schemas (src/schemas.py) and the literal seed set (src/main.py).        *)
(***************************************************************************)
\* IssueCategory(...).model_dump()
IssueCategory(key, title, description, icon) ==
    << <<"key", Text(key)>>, <<"title", Text(title)>>,
       <<"description", Text(description)>>, <<"icon", Text(icon)>> >>

\* SolutionStep as the dict literal the seeder passes
SolutionStep(title, details) ==
    Dict(<< <<"title", Text(title)>>, <<"details", Text(details)>> >>)

\* SolutionGuide(...).model_dump()
SolutionGuide(title, category_key, devices, summary, steps, difficulty) ==
    << <<"title", Text(title)>>, <<"category_key", Text(category_key)>>,
       <<"devices", List(devices)>>, <<"summary", Text(summary)>>,
       <<"steps", List(steps)>>, <<"difficulty", Text(difficulty)>> >>

catIcloud ==
    IssueCategory("icloud", "iCloud/Activation Lock",
                  "Help with activation lock and iCloud lock issues", "cloud")
catFrp ==
    IssueCategory("frp", "FRP (Factory Reset Protection)",
                  "Google account lock/FRP bypass help", "shield")
catScreenLock ==
    IssueCategory("screen-lock", "Screen/Pin/Pattern Lock",
                  "Forgotten screen lock resolutions", "lock")
catBootloop ==
    IssueCategory("bootloop", "Bootloop/No Boot",
                  "Device stuck on boot logo or not starting", "refresh")

\* A slip of the literal: the last category is left out.
categoriesShort == << catIcloud, catFrp, catScreenLock >>

\* `categories: List[IssueCategory] = [...]`
categories == << catIcloud, catFrp, catScreenLock, catBootloop >>

guideActivationLock ==
    SolutionGuide("Check Activation Lock Status", "icloud",
       << Text("iPhone 8+"), Text("iPad (2018+)") >>,
       "Verify activation lock status and prepare ownership proof",
       << SolutionStep("Find IMEI/Serial", "From the SIM tray or box. If device is on, go to Settings > General > About."),
          SolutionStep("Check Online", "Use Apple's support to check coverage and activation lock status."),
          SolutionStep("Contact Original Owner", "Request remote removal via iCloud.com > Find My.") >>,
       "medium")
guideFrp ==
    SolutionGuide("FRP Removal Preparation", "frp",
       << Text("Samsung Galaxy S9+"), Text("Pixel 3+") >>,
       "Collect details and follow safe FRP bypass preparation steps",
       << SolutionStep("Know the Patch Level", "Find the Android security patch level to choose a compatible method."),
          SolutionStep("Network Ready", "Ensure stable Wi-Fi; some steps require SIM with PIN."),
          SolutionStep("OTG/PC Tools", "Have a USB cable and a computer ready for ADB-based methods.") >>,
       "hard")
guideScreenPin ==
    SolutionGuide("Forgot Screen PIN on Android", "screen-lock",
       << Text("Android 8+") >>,
       "Try non-destructive options before reset",
       << SolutionStep("Find My Device Unlock", "If enabled, use google.com/android/find to attempt unlock or reset."),
          SolutionStep("OEM Account Unlock", "Some vendors allow remote unlock after verification."),
          SolutionStep("Backup then Reset", "If nothing works, use recovery mode to factory reset (will erase data).") >>,
       "easy")

\* A slip of the literal: the third guide names a category key that is not seeded.
guidesDangling ==
    << guideActivationLock, guideFrp,
       SolutionGuide("Forgot Screen PIN on Android", "screenlock", << Text("Android 8+") >>,
                     "Try non-destructive options before reset", <<>>, "easy") >>

\* `guides: List[SolutionGuide] = [...]`
guides == << guideActivationLock, guideFrp, guideScreenPin >>

(***************************************************************************)
(* The document store adapter (module database).                           *)
(***************************************************************************)
\* The identifier the store assigns to the i-th record request c inserts (c = 0:
\* records that were in the store before the service started). Identifiers are
\* unique: no two inserts share (c, i).
NewObjectId(c, i) == ObjectId(c * (Len(categories) + Len(guides) + 1) + i)

\* The request that inserted a stored record, read back from its identifier.
CallOf(d) == Get(d, "_id").v \div (Len(categories) + Len(guides) + 1)

\* create_document(collection_name, data): the collection after one insert of
\* the record under the store-assigned identifier id.
create_document(coll, data, id) == coll \cup {<< <<"_id", id>> >> \o data}

\* get_documents(collection_name, filter_dict): the records matching every
\* field-equality constraint of the filter (empty filter: all records); the
\* order is the store's, so the result is modelled by its set of records.
Matches(d, filt) ==
    \A i \in 1..Len(filt) : HasKey(d, filt[i][1]) /\ Get(d, filt[i][1]) = filt[i][2]
get_documents(coll, filt) == {d \in coll : Matches(d, filt)}

\* db[name].count_documents({})
count_documents(coll) == Cardinality(coll)

(***************************************************************************)
(* POST /api/seed: seed_sample_data, one store call per step.              *)
(***************************************************************************)
\* A slip of the check: seed whenever fewer records than a full seed set exist.
IsEmptyBelowSeed(coll) == count_documents(coll) < Len(categories)

\* A slip of the check: the handle is never tested.
DbCheckSkipped == FALSE

\* `if db is None`
DbIsNone == db = "none"

\* `count_documents({}) == 0`
IsEmpty(coll) == count_documents(coll) = 0

Running == {"count_cats", "ins_cats", "count_guides", "ins_guides"}

\* History: what the collection held when the call counted it.
Observed(coll) == IF coll = {} THEN "empty" ELSE "nonempty"

\* The request arrives; an uninitialised handle raises HTTPException(500) at once.
SeedBegin(w) ==
    /\ pc[w] \notin Running
    /\ calls < MaxCalls
    /\ calls' = calls + 1
    /\ call' = [call EXCEPT ![w] = calls + 1]
    /\ pc' = [pc EXCEPT ![w] = IF DbIsNone THEN "failed" ELSE "count_cats"]
    /\ idx' = [idx EXCEPT ![w] = 0]
    /\ sawCats' = [sawCats EXCEPT ![w] = "unknown"]
    /\ sawGuides' = [sawGuides EXCEPT ![w] = "unknown"]
    /\ catsIns' = [catsIns EXCEPT ![w] = <<>>]
    /\ guidesIns' = [guidesIns EXCEPT ![w] = <<>>]
    /\ ops' = [ops EXCEPT ![w] = 0]
    /\ afterSeed' = [afterSeed EXCEPT ![w] = seeded]
    /\ afterPartial' = [afterPartial EXCEPT ![w] = partial]
    /\ UNCHANGED <<db, issuecategory, solutionguide, seeded, partial>>

\* A slip of the control flow: a non-empty issuecategory ends the whole call.
SeedCountCategoriesReturnEarly(w) ==
    /\ pc[w] = "count_cats"
    /\ ops' = [ops EXCEPT ![w] = @ + 1]
    /\ IF IsEmpty(issuecategory)
       THEN /\ pc' = [pc EXCEPT ![w] = "ins_cats"]
            /\ idx' = [idx EXCEPT ![w] = 1]
            /\ seeded' = seeded
       ELSE /\ pc' = [pc EXCEPT ![w] = "done"]
            /\ idx' = idx
            /\ seeded' = TRUE
    /\ sawCats' = [sawCats EXCEPT ![w] = Observed(issuecategory)]
    /\ UNCHANGED <<db, issuecategory, solutionguide, calls, call, sawGuides, catsIns,
                   guidesIns, afterSeed, partial, afterPartial>>

\* `if db["issuecategory"].count_documents({}) == 0:`
SeedCountCategories(w) ==
    /\ pc[w] = "count_cats"
    /\ ops' = [ops EXCEPT ![w] = @ + 1]
    /\ IF IsEmpty(issuecategory)
       THEN /\ pc' = [pc EXCEPT ![w] = "ins_cats"]
            /\ idx' = [idx EXCEPT ![w] = 1]
       ELSE /\ pc' = [pc EXCEPT ![w] = "count_guides"]
            /\ idx' = idx
    /\ sawCats' = [sawCats EXCEPT ![w] = Observed(issuecategory)]
    /\ UNCHANGED <<db, issuecategory, solutionguide, calls, call, sawGuides, catsIns,
                   guidesIns, seeded, afterSeed, partial, afterPartial>>

\* A variant with a guard: a category whose key is already stored is not inserted.
SeedUpsertCategory(w) ==
    /\ pc[w] = "ins_cats"
    /\ issuecategory' =
          IF \E d \in issuecategory : Get(d, "key") = Get(categories[idx[w]], "key")
          THEN issuecategory
          ELSE create_document(issuecategory, categories[idx[w]], NewObjectId(call[w], idx[w]))
    /\ catsIns' = [catsIns EXCEPT ![w] = Append(@, Get(categories[idx[w]], "key").v.s)]
    /\ ops' = [ops EXCEPT ![w] = @ + 1]
    /\ IF idx[w] < Len(categories)
       THEN /\ idx' = [idx EXCEPT ![w] = @ + 1]
            /\ pc' = pc
       ELSE /\ idx' = [idx EXCEPT ![w] = 0]
            /\ pc' = [pc EXCEPT ![w] = "count_guides"]
    /\ UNCHANGED <<db, solutionguide, calls, call, sawCats, sawGuides, guidesIns,
                   seeded, afterSeed, partial, afterPartial>>

\* `for cat in categories: create_document("issuecategory", cat)`, one iteration
SeedInsertCategory(w) ==
    /\ pc[w] = "ins_cats"
    /\ issuecategory' = create_document(issuecategory, categories[idx[w]], NewObjectId(call[w], idx[w]))
    /\ catsIns' = [catsIns EXCEPT ![w] = Append(@, Get(categories[idx[w]], "key").v.s)]
    /\ ops' = [ops EXCEPT ![w] = @ + 1]
    /\ IF idx[w] < Len(categories)
       THEN /\ idx' = [idx EXCEPT ![w] = @ + 1]
            /\ pc' = pc
       ELSE /\ idx' = [idx EXCEPT ![w] = 0]
            /\ pc' = [pc EXCEPT ![w] = "count_guides"]
    /\ UNCHANGED <<db, solutionguide, calls, call, sawCats, sawGuides, guidesIns,
                   seeded, afterSeed, partial, afterPartial>>

\* `if db["solutionguide"].count_documents({}) == 0:`; a non-empty collection
\* falls through to `return {"message": "Seed complete"}`
SeedCountGuides(w) ==
    /\ pc[w] = "count_guides"
    /\ ops' = [ops EXCEPT ![w] = @ + 1]
    /\ IF IsEmpty(solutionguide)
       THEN /\ pc' = [pc EXCEPT ![w] = "ins_guides"]
            /\ idx' = [idx EXCEPT ![w] = 1]
            /\ seeded' = seeded
       ELSE /\ pc' = [pc EXCEPT ![w] = "done"]
            /\ idx' = idx
            /\ seeded' = TRUE
    /\ sawGuides' = [sawGuides EXCEPT ![w] = Observed(solutionguide)]
    /\ UNCHANGED <<db, issuecategory, solutionguide, calls, call, sawCats, catsIns,
                   guidesIns, afterSeed, partial, afterPartial>>

\* `for g in guides: create_document("solutionguide", g)`, one iteration; the
\* last one is followed by `return {"message": "Seed complete"}`
SeedInsertGuide(w) ==
    /\ pc[w] = "ins_guides"
    /\ solutionguide' = create_document(solutionguide, guides[idx[w]],
                                        NewObjectId(call[w], Len(categories) + idx[w]))
    /\ guidesIns' = [guidesIns EXCEPT ![w] = Append(@, Get(guides[idx[w]], "category_key").v.s)]
    /\ ops' = [ops EXCEPT ![w] = @ + 1]
    /\ IF idx[w] < Len(guides)
       THEN /\ idx' = [idx EXCEPT ![w] = @ + 1]
            /\ pc' = pc
            /\ seeded' = seeded
       ELSE /\ idx' = [idx EXCEPT ![w] = 0]
            /\ pc' = [pc EXCEPT ![w] = "done"]
            /\ seeded' = TRUE
    /\ UNCHANGED <<db, issuecategory, calls, call, sawCats, sawGuides, catsIns,
                   afterSeed, partial, afterPartial>>

\* A variant with a rollback: the failing call removes the records it inserted.
SeedStoreErrorRollback(w) ==
    /\ pc[w] \in Running
    /\ pc' = [pc EXCEPT ![w] = "failed"]
    /\ idx' = [idx EXCEPT ![w] = 0]
    /\ ops' = [ops EXCEPT ![w] = @ + 1]
    /\ partial' = [cats |-> partial.cats \/ (pc[w] = "ins_cats" /\ Len(catsIns[w]) > 0),
                   guides |-> partial.guides \/ (pc[w] = "ins_guides" /\ Len(guidesIns[w]) > 0)]
    /\ issuecategory' = {d \in issuecategory : CallOf(d) # call[w]}
    /\ solutionguide' = {d \in solutionguide : CallOf(d) # call[w]}
    /\ UNCHANGED <<db, calls, call, sawCats, sawGuides,
                   catsIns, guidesIns, seeded, afterSeed, afterPartial>>

\* The store call w is about to make raises (connectivity loss): the exception
\* leaves seed_sample_data, the request ends in a server error, nothing is undone.
SeedStoreError(w) ==
    /\ pc[w] \in Running
    /\ pc' = [pc EXCEPT ![w] = "failed"]
    /\ idx' = [idx EXCEPT ![w] = 0]
    /\ ops' = [ops EXCEPT ![w] = @ + 1]
    /\ partial' = [cats |-> partial.cats \/ (pc[w] = "ins_cats" /\ Len(catsIns[w]) > 0),
                   guides |-> partial.guides \/ (pc[w] = "ins_guides" /\ Len(guidesIns[w]) > 0)]
    /\ UNCHANGED <<db, issuecategory, solutionguide, calls, call, sawCats, sawGuides,
                   catsIns, guidesIns, seeded, afterSeed, afterPartial>>

(***************************************************************************)
(* _serialize (src/main.py).                                               *)
(***************************************************************************)
\* str(v) for the scalar values a record field can hold
PyStr(v) ==
    CASE v.t = "str" -> v
      [] v.t = "ObjectId" -> Rendered("hex", v.v)
      [] v.t = "datetime" -> Rendered("datetime-str", v.v)
      [] v.t = "int" -> Rendered("dec", v.v)
      [] v.t = "NoneType" -> Text("None")

\* repr(v) for the same values: a str comes back quoted
PyRepr(v) ==
    CASE v.t = "str" -> [t |-> "str", v |-> [s |-> "'" \o v.v.s \o "'", n |-> v.v.n]]
      [] v.t = "ObjectId" -> Rendered("ObjectId-repr", v.v)
      [] v.t = "datetime" -> Rendered("datetime-repr", v.v)
      [] v.t = "int" -> Rendered("dec", v.v)
      [] v.t = "NoneType" -> Text("None")

\* datetime.isoformat()
isoformat(v) == Rendered("iso", v.v)

\* `hasattr(x, "__class__") and x.__class__.__name__ == "ObjectId"`
IsObjectId(x) == x.t = "ObjectId"

\* `[str(x) if ... == "ObjectId" else x for x in v]`
SerializeList(v) ==
    IF Len(v) = 0 THEN <<>>
    ELSE [i \in 1..Len(v) |-> IF IsObjectId(v[i]) THEN PyStr(v[i]) ELSE v[i]]

\* A slip of the loop body: the identifier keeps its key and is rendered with repr().
SerializeFieldRepr(out, k, v) ==
    IF k = "_id" THEN SetItem(out, k, PyRepr(v))
    ELSE IF v.t = "datetime" THEN SetItem(out, k, isoformat(v))
    ELSE IF v.t = "list" THEN SetItem(out, k, List(SerializeList(v.v)))
    ELSE SetItem(out, k, v)

\* A slip of the loop body: every list element is rendered with str().
SerializeFieldStrAll(out, k, v) ==
    IF k = "_id" THEN SetItem(out, "id", PyStr(v))
    ELSE IF v.t = "datetime" THEN SetItem(out, k, isoformat(v))
    ELSE IF v.t = "list"
         THEN SetItem(out, k, List(IF Len(v.v) = 0 THEN <<>>
                                   ELSE [i \in 1..Len(v.v) |-> PyStr(v.v[i])]))
    ELSE SetItem(out, k, v)

\* The body of `for k, v in doc.items():`
SerializeField(out, k, v) ==
    IF k = "_id" THEN SetItem(out, "id", PyStr(v))
    ELSE IF v.t = "datetime" THEN SetItem(out, k, isoformat(v))
    ELSE IF v.t = "list" THEN SetItem(out, k, List(SerializeList(v.v)))
    ELSE SetItem(out, k, v)

RECURSIVE SerializeFrom(_, _, _)
SerializeFrom(d, i, out) ==
    IF i > Len(d) THEN out
    ELSE SerializeFrom(d, i + 1, SerializeField(out, d[i][1], d[i][2]))

_serialize(d) == SerializeFrom(d, 1, <<>>)

(***************************************************************************)
(* GET /api/guides: list_guides.                                           *)
(***************************************************************************)
\* Truth value of the Optional[str] parameter: None and "" are falsy.
Truthy(v) == v.t = "str" /\ v.v # [s |-> "", n |-> 0]

\* A slip of the filter: the constraint is put on the field "key".
GuideFilterWrongField(category_key) ==
    IF Truthy(category_key) THEN << <<"key", category_key>> >> ELSE <<>>

\* `filt = {"category_key": category_key} if category_key else {}`
GuideFilter(category_key) ==
    IF Truthy(category_key) THEN << <<"category_key", category_key>> >> ELSE <<>>

\* get_documents on the handle: an uninitialised store yields no records.
ReadGuides(filt) == IF db = "none" THEN {} ELSE get_documents(solutionguide, filt)

QueryParams == {None, Text(""), Text("icloud"), Text("frp"), Text("unlock")}

list_guides(category_key) ==
    /\ query' = category_key
    /\ resp' = {_serialize(d) : d \in ReadGuides(GuideFilter(category_key))}
    /\ UNCHANGED <<seedVars, serVars>>

\* Records entered through the database viewer before the service starts.
ManualCategory == IssueCategory("water-damage", "Water Damage", "Liquid contact", "drop")
ManualGuide ==
    SolutionGuide("Dry the device", "water-damage", << Text("Any") >>, "Power off and dry",
                  << SolutionStep("Power off", "Hold the power button.") >>, "easy")

InitSeed ==
    /\ db \in {"none", "ready"}
    /\ issuecategory \in {{}, create_document({}, ManualCategory, NewObjectId(0, 1))}
    /\ solutionguide \in {{}, create_document({}, ManualGuide, NewObjectId(0, 2))}
    /\ pc = [w \in Workers |-> "idle"]
    /\ idx = [w \in Workers |-> 0]
    /\ calls = 0
    /\ call = [w \in Workers |-> 0]
    /\ sawCats = [w \in Workers |-> "unknown"]
    /\ sawGuides = [w \in Workers |-> "unknown"]
    /\ catsIns = [w \in Workers |-> <<>>]
    /\ guidesIns = [w \in Workers |-> <<>>]
    /\ ops = [w \in Workers |-> 0]
    /\ seeded = FALSE
    /\ afterSeed = [w \in Workers |-> FALSE]
    /\ partial = [cats |-> FALSE, guides |-> FALSE]
    /\ afterPartial = [w \in Workers |-> [cats |-> FALSE, guides |-> FALSE]]

Init ==
    /\ InitSeed
    /\ query = NoRequest
    /\ resp = {}
    /\ doc = <<>>
    /\ once = <<>>
    /\ twice = <<>>
    /\ serPc = "raw"

Next ==
    \/ \E w \in Workers : SeedBegin(w) /\ UNCHANGED <<guideVars, serVars>>
    \/ \E w \in Workers : SeedCountCategories(w) /\ UNCHANGED <<guideVars, serVars>>
    \/ \E w \in Workers : SeedInsertCategory(w) /\ UNCHANGED <<guideVars, serVars>>
    \/ \E w \in Workers : SeedCountGuides(w) /\ UNCHANGED <<guideVars, serVars>>
    \/ \E w \in Workers : SeedInsertGuide(w) /\ UNCHANGED <<guideVars, serVars>>
    \/ \E w \in Workers : SeedStoreError(w) /\ UNCHANGED <<guideVars, serVars>>

Spec == Init /\ [][Next]_vars

(***************************************************************************)
(* SpecGuides: GET /api/guides over a collection of stored guides.         *)
(***************************************************************************)
\* Guides a store can hold: seeded ones, and ones entered by hand (the schema
\* puts no constraint on category_key beyond being a string).
StoredGuides ==
    { << <<"_id", NewObjectId(1, Len(categories) + i)>> >> \o guides[i] : i \in 1..Len(guides) }
    \cup { << <<"_id", NewObjectId(0, 2)>> >> \o ManualGuide,
           << <<"_id", NewObjectId(0, 3)>> >> \o
              SolutionGuide("Untitled", "", <<>>, "", <<>>, "easy"),
           << <<"_id", NewObjectId(0, 4)>> >> \o
              SolutionGuide("Unlock iCloud", "icloud", <<>>, "", <<>>, "hard") }

InitGuides ==
    /\ db = "ready"
    /\ issuecategory = {}
    /\ solutionguide \in {g \in SUBSET StoredGuides : Cardinality(g) <= MaxStored}
    /\ pc = [w \in Workers |-> "idle"]
    /\ idx = [w \in Workers |-> 0]
    /\ calls = 0
    /\ call = [w \in Workers |-> 0]
    /\ sawCats = [w \in Workers |-> "unknown"]
    /\ sawGuides = [w \in Workers |-> "unknown"]
    /\ catsIns = [w \in Workers |-> <<>>]
    /\ guidesIns = [w \in Workers |-> <<>>]
    /\ ops = [w \in Workers |-> 0]
    /\ seeded = FALSE
    /\ afterSeed = [w \in Workers |-> FALSE]
    /\ partial = [cats |-> FALSE, guides |-> FALSE]
    /\ afterPartial = [w \in Workers |-> [cats |-> FALSE, guides |-> FALSE]]
    /\ query = NoRequest
    /\ resp = {}
    /\ doc = <<>>
    /\ once = <<>>
    /\ twice = <<>>
    /\ serPc = "raw"

NextGuides == \E q \in QueryParams : list_guides(q)

SpecGuides == InitGuides /\ [][NextGuides]_vars

(***************************************************************************)
(* SpecSer: _serialize applied once and twice to a raw record.             *)
(***************************************************************************)
FieldNames == {"_id", "id", "created_at", "tags"}

\* Scalars: identifiers, timestamps, and strings that look like rendered ones.
Scalars ==
    { ObjectId(1), ObjectId(2), Datetime(1), Text("abc"), Rendered("hex", 1),
      Rendered("iso", 1), PyInt(7), None }

Lists ==
    { List(<<>>), List(<<ObjectId(1), Text("abc")>>), List(<<Text("abc"), PyInt(7)>>),
      List(<<Datetime(1), ObjectId(2)>>) }

\* str() of the _id field is modelled for scalars only.
Fields == (FieldNames \X Scalars) \cup ((FieldNames \ {"_id"}) \X Lists)

RECURSIVE RawDocs(_)
RawDocs(n) ==
    IF n = 0 THEN {<<>>}
    ELSE LET shorter == RawDocs(n - 1)
         IN shorter \cup { Append(d, f) : d \in {x \in shorter : Len(x) = n - 1},
                                          f \in Fields }

WellFormed(d) == \A i, j \in 1..Len(d) : d[i][1] = d[j][1] => i = j

InitSer ==
    /\ db = "ready"
    /\ issuecategory = {}
    /\ solutionguide = {}
    /\ pc = [w \in Workers |-> "idle"]
    /\ idx = [w \in Workers |-> 0]
    /\ calls = 0
    /\ call = [w \in Workers |-> 0]
    /\ sawCats = [w \in Workers |-> "unknown"]
    /\ sawGuides = [w \in Workers |-> "unknown"]
    /\ catsIns = [w \in Workers |-> <<>>]
    /\ guidesIns = [w \in Workers |-> <<>>]
    /\ ops = [w \in Workers |-> 0]
    /\ seeded = FALSE
    /\ afterSeed = [w \in Workers |-> FALSE]
    /\ partial = [cats |-> FALSE, guides |-> FALSE]
    /\ afterPartial = [w \in Workers |-> [cats |-> FALSE, guides |-> FALSE]]
    /\ query = NoRequest
    /\ resp = {}
    /\ doc \in {d \in RawDocs(MaxFields) : WellFormed(d)}
    /\ once = <<>>
    /\ twice = <<>>
    /\ serPc = "raw"

SerializeOnce ==
    /\ serPc = "raw"
    /\ once' = _serialize(doc)
    /\ serPc' = "once"
    /\ UNCHANGED <<seedVars, guideVars, doc, twice>>

SerializeTwice ==
    /\ serPc = "once"
    /\ twice' = _serialize(once)
    /\ serPc' = "twice"
    /\ UNCHANGED <<seedVars, guideVars, doc, once>>

NextSer == SerializeOnce \/ SerializeTwice

SpecSer == InitSer /\ [][NextSer]_vars

(***************************************************************************)
(* Properties of POST /api/seed (checked under Spec).                      *)
(***************************************************************************)
SeedCategoryKeys == <<"icloud", "frp", "screen-lock", "bootloop">>
SeedGuideKeys == <<"icloud", "frp", "screen-lock">>
Range(f) == {f[i] : i \in DOMAIN f}

\* The records of coll that seed call c inserted.
InsertedBy(coll, c) == {d \in coll : CallOf(d) = c}
\* The stored records of coll whose field holds the text key.
WithKey(coll, field, key) == {d \in coll : Get(d, field) = Text(key)}

\* C1: once some seed call has returned "Seed complete", a seed call that begins
\* afterwards inserts no record into issuecategory and none into solutionguide:
\* none of its steps has added a record, and neither collection holds a record
\* carrying one of its identifiers.
C1_SeedIdempotent ==
    \A w \in Workers :
        afterSeed[w] =>
            /\ catsIns[w] = <<>> /\ guidesIns[w] = <<>>
            /\ InsertedBy(issuecategory, call[w]) = {}
            /\ InsertedBy(solutionguide, call[w]) = {}

\* C1 witness: a call begun after a successful one has itself run to completion.
C1_Witness ==
    \E w \in Workers : afterSeed[w] /\ pc[w] = "done" /\ ops[w] = 2

\* C2: a seed call that counted an empty issuecategory and returned has inserted
\* exactly 4 category records, keys icloud, frp, screen-lock, bootloop in that
\* order, one record per key; a call that counted a non-empty issuecategory has
\* inserted none.
C2_CategorySeed ==
    \A w \in Workers :
        /\ (sawCats[w] = "empty" /\ pc[w] = "done") =>
              /\ catsIns[w] = SeedCategoryKeys
              /\ Cardinality(InsertedBy(issuecategory, call[w])) = 4
              /\ \A k \in Range(SeedCategoryKeys) :
                    Cardinality(WithKey(InsertedBy(issuecategory, call[w]), "key", k)) = 1
        /\ sawCats[w] = "nonempty" =>
              /\ catsIns[w] = <<>>
              /\ InsertedBy(issuecategory, call[w]) = {}

\* C2 witness: a completed call that found issuecategory empty and filled it.
C2_Witness ==
    \E w \in Workers :
        pc[w] = "done" /\ sawCats[w] = "empty" /\ Len(catsIns[w]) = 4
        /\ Cardinality(issuecategory) = 4

\* C3: a seed call that counted an empty solutionguide and returned has inserted
\* exactly 3 guide records, and the category_key of each is one of icloud, frp,
\* screen-lock, bootloop.
C3_GuideSeed ==
    \A w \in Workers :
        (sawGuides[w] = "empty" /\ pc[w] = "done") =>
            /\ Len(guidesIns[w]) = 3
            /\ Cardinality(InsertedBy(solutionguide, call[w])) = 3
            /\ \A d \in InsertedBy(solutionguide, call[w]) :
                  \E k \in Range(SeedCategoryKeys) : Get(d, "category_key") = Text(k)

\* C3 witness: a completed call that found solutionguide empty and filled it.
C3_Witness ==
    \E w \in Workers :
        pc[w] = "done" /\ sawGuides[w] = "empty" /\ Cardinality(solutionguide) = 3

\* C4: every call that returned has counted both collections, and what it
\* inserted into each collection is decided by that collection's emptiness at
\* its count alone: the 4 categories exactly when issuecategory was empty, the
\* 3 guides exactly when solutionguide was empty, in all four combinations.
C4_StepsIndependent ==
    \A w \in Workers :
        pc[w] = "done" =>
            /\ sawCats[w] # "unknown" /\ sawGuides[w] # "unknown"
            /\ catsIns[w] = IF sawCats[w] = "empty" THEN SeedCategoryKeys ELSE <<>>
            /\ guidesIns[w] = IF sawGuides[w] = "empty" THEN SeedGuideKeys ELSE <<>>

\* C4 witness: one completed call saw categories present and guides missing (3
\* guides, no category inserted), another saw the opposite (4 categories, no guide).
C4_Witness ==
    \E w1, w2 \in Workers :
        /\ pc[w1] = "done" /\ sawCats[w1] = "nonempty" /\ sawGuides[w1] = "empty"
        /\ catsIns[w1] = <<>> /\ Len(guidesIns[w1]) = 3
        /\ pc[w2] = "done" /\ sawCats[w2] = "empty" /\ sawGuides[w2] = "nonempty"
        /\ Len(catsIns[w2]) = 4 /\ guidesIns[w2] = <<>>

\* C5: with the store handle uninitialised, every seed call ends in the server
\* error without having issued a count or an insert, and no step changes either
\* collection.
C5_NoStoreNoEffect ==
    /\ [](db = "none" =>
            \A w \in Workers : /\ pc[w] \in {"idle", "failed"}
                               /\ ops[w] = 0
                               /\ catsIns[w] = <<>> /\ guidesIns[w] = <<>>)
    /\ [][db = "none" => UNCHANGED <<issuecategory, solutionguide>>]_vars

\* C5 witness: a seed call was made on an uninitialised handle and failed, with
\* records sitting in the store.
C5_Witness ==
    /\ db = "none" /\ issuecategory # {}
    /\ \E w \in Workers : pc[w] = "failed" /\ call[w] > 0

\* C6: two seed calls that both counted both collections as empty and both
\* returned have both inserted the full seed set: every seeded category key is
\* then held by at least two records of issuecategory, and every seeded guide
\* at least twice in solutionguide.
C6_RaceDuplicates ==
    \A w1, w2 \in Workers :
        ( /\ w1 # w2
          /\ pc[w1] = "done" /\ sawCats[w1] = "empty" /\ sawGuides[w1] = "empty"
          /\ pc[w2] = "done" /\ sawCats[w2] = "empty" /\ sawGuides[w2] = "empty" ) =>
            /\ \A k \in Range(SeedCategoryKeys) :
                  Cardinality(WithKey(issuecategory, "key", k)) >= 2
            /\ \A k \in Range(SeedGuideKeys) :
                  Cardinality(WithKey(solutionguide, "category_key", k)) >= 2

\* C6 witness: the race has happened: 8 categories, two per key, and 6 guides.
C6_Witness ==
    /\ Cardinality(issuecategory) = 8
    /\ Cardinality(solutionguide) = 6
    /\ \E d1, d2 \in issuecategory : d1 # d2 /\ Get(d1, "key") = Get(d2, "key")
    /\ \E w1, w2 \in Workers : w1 # w2 /\ sawCats[w1] = "empty" /\ sawCats[w2] = "empty"

\* The collection holds the seed set and nothing else: one record per seed key.
ExactSeedSet(coll, field, keys) ==
    /\ Cardinality(coll) = Len(keys)
    /\ \A k \in Range(keys) : Cardinality(WithKey(coll, field, k)) = 1

\* C10: stored records are never removed (no rollback); once a failed call has
\* left 0 < k < N seed records in a collection, no call that begins afterwards
\* inserts into that collection, and the collection is never exactly the seed set.
C10_PartialSeedPermanent ==
    /\ [][issuecategory \subseteq issuecategory' /\ solutionguide \subseteq solutionguide']_vars
    /\ [](\A w \in Workers :
            /\ afterPartial[w].cats =>
                  catsIns[w] = <<>> /\ InsertedBy(issuecategory, call[w]) = {}
            /\ afterPartial[w].guides =>
                  guidesIns[w] = <<>> /\ InsertedBy(solutionguide, call[w]) = {})
    /\ [](partial.cats => ~ExactSeedSet(issuecategory, "key", SeedCategoryKeys))
    /\ [](partial.guides => ~ExactSeedSet(solutionguide, "category_key", SeedGuideKeys))

\* C10 witness: after a failure that left 2 of the 4 categories, a later call
\* ran to completion and the collection still holds those 2 records only.
C10_Witness ==
    \E w \in Workers :
        /\ afterPartial[w].cats /\ pc[w] = "done"
        /\ Cardinality(issuecategory) = 2

(***************************************************************************)
(* Properties of GET /api/guides (checked under SpecGuides).               *)
(***************************************************************************)
Answered == query # NoRequest
AllGuides == {_serialize(d) : d \in solutionguide}
GuidesOf(category_key) ==
    {_serialize(d) : d \in {g \in solutionguide : Get(g, "category_key") = category_key}}

\* C9 as stated: for every given string value the response is exactly the stored
\* guides whose category_key equals it; with no parameter it is all stored guides.
C9_AsStated ==
    Answered =>
        /\ query.t = "str" => resp = GuidesOf(query)
        /\ query = None => resp = AllGuides

\* C9 as amended: for every given non-empty string value the response is exactly
\* the stored guides whose category_key equals it; with no parameter, or with an
\* empty category_key, it is all stored guides.
C9_GuideFilter ==
    Answered =>
        /\ (query.t = "str" /\ query # Text("")) => resp = GuidesOf(query)
        /\ (query = None \/ query = Text("")) => resp = AllGuides

\* C9 witness: a filtered request that returned some stored guides and left
\* others out.
C9_Witness ==
    /\ query = Text("icloud")
    /\ resp # {} /\ resp # AllGuides

(***************************************************************************)
(* Properties of _serialize (checked under SpecSer).                       *)
(***************************************************************************)
\* C7: serializing the output of _serialize gives that output again.
C7_SerializeIdempotent ==
    serPc = "twice" => DictEq(twice, once)

\* C7 witness: a record with an ObjectId under _id and a list holding an ObjectId
\* and a timestamp has been serialized twice.
C7_Witness ==
    /\ serPc = "twice"
    /\ HasKey(doc, "_id") /\ Get(doc, "_id").t = "ObjectId"
    /\ \E i \in 1..Len(doc) : doc[i][2] = List(<<Datetime(1), ObjectId(2)>>)

\* Some field of d holds a native identifier, directly or as a list element.
HoldsIdentifier(d) ==
    \E i \in 1..Len(d) :
        \/ IsObjectId(d[i][2])
        \/ d[i][2].t = "list" /\ \E j \in 1..Len(d[i][2].v) : IsObjectId(d[i][2].v[j])
\* Some field of d holds a timestamp.
HoldsTimestamp(d) == \E i \in 1..Len(d) : d[i][2].t = "datetime"

\* C8 as stated: a record with no identifier value and no timestamp value comes
\* back equal to the input, whatever its field names.
C8_AsStated ==
    (serPc # "raw" /\ ~HoldsIdentifier(doc) /\ ~HoldsTimestamp(doc)) => DictEq(once, doc)

\* C8 as amended: a record with no field named _id, no identifier value and no
\* timestamp value comes back equal to the input.
C8_SerializeIdentity ==
    (serPc # "raw" /\ ~HasKey(doc, "_id") /\ ~HoldsIdentifier(doc) /\ ~HoldsTimestamp(doc))
        => DictEq(once, doc)

\* C8 witness: such a record, with a list field and a string that looks like a
\* rendered identifier, has been serialized.
C8_Witness ==
    /\ serPc = "once"
    /\ ~HasKey(doc, "_id") /\ ~HoldsIdentifier(doc) /\ ~HoldsTimestamp(doc)
    /\ \E i, j \in 1..Len(doc) :
          doc[i][2] = List(<<Text("abc"), PyInt(7)>>) /\ doc[j][2] = Rendered("hex", 1)

====
